---------------------------- MODULE Spec2Model ----------------------------
(***************************************************************************)
(* A model of the SAM inference driver (src/predict.py) and of its logging *)
(* manager (src/tools/log_mode.py).                                        *)
(*                                                                         *)
(* The logging manager registers sinks with the process-wide loguru        *)
(* logger: `handlers` is that logger's registry, `nextId` its handler id   *)
(* counter.  Every LogManager object keeps the ids it was given.  Strings  *)
(* that the code converts with str.upper() are sequences of characters, so *)
(* that the conversion is computed and not assumed.                        *)
(***************************************************************************)
EXTENDS Integers, Sequences, FiniteSets, TLC

VARIABLES
    handlers,     \* loguru: the registered sinks (process-wide)
    nextId,       \* loguru: the id the next log.add() returns
    mgr,          \* the LogManager objects constructed so far, by object
    out,          \* the records emitted by the last operation, in order
    result,       \* how the last operation ended: "ok" or the exception
    op,           \* the last operation: its name, its object, its argument
    pc,           \* predict.py __main__: position of the driver
    args,         \* predict.py __main__: the parsed command line
    env,          \* what the driver finds: files, configuration values
    model,        \* SAMPredictor.model ("unassigned" until assigned)
    model_calls,  \* the calls made to the underlying model
    results,      \* the list the inference call returned
    saved,        \* the results saved, each with the path it was saved to
    steps         \* the driver's steps completed without error, in order

logvars == <<handlers, nextId, mgr, out, result, op>>
drvvars == <<pc, args, env, model, model_calls, results, saved, steps>>
vars == <<handlers, nextId, mgr, out, result, op,
          pc, args, env, model, model_calls, results, saved, steps>>

-----------------------------------------------------------------------------
(* Bounds of the model *)

\* the LogManager objects that may be constructed in one process
NumManagers == 2
\* loguru's id counter is unbounded; no sink is added beyond this id
MaxHandlerId == 15
\* the longest result list the underlying model returns
MaxResults == 2

Managers == 1 .. NumManagers

-----------------------------------------------------------------------------
(* Strings and str.upper() *)

LowerCase == <<"a","b","c","d","e","f","g","h","i","j","k","l","m",
               "n","o","p","q","r","s","t","u","v","w","x","y","z">>
UpperCase == <<"A","B","C","D","E","F","G","H","I","J","K","L","M",
               "N","O","P","Q","R","S","T","U","V","W","X","Y","Z">>

upper_identity(s) == s

upper(s) ==
    [i \in DOMAIN s |->
        IF \E k \in DOMAIN LowerCase : LowerCase[k] = s[i]
        THEN UpperCase[CHOOSE k \in DOMAIN LowerCase : LowerCase[k] = s[i]]
        ELSE s[i]]

DEBUG   == <<"D","E","B","U","G">>
INFO    == <<"I","N","F","O">>
WARNING == <<"W","A","R","N","I","N","G">>
ERROR   == <<"E","R","R","O","R">>

\* LogConfig.VALID_LEVELS
VALID_LEVELS == <<DEBUG, INFO, WARNING, ERROR>>

\* LogConfig.LEVEL_PRIORITY
LEVEL_PRIORITY == (DEBUG :> 0) @@ (INFO :> 1) @@ (WARNING :> 2) @@ (ERROR :> 3)

\* x in list
InList(x, list) == \E i \in DOMAIN list : list[i] = x

\* the level strings given to set_log_level and to LogManager(run_mode=...)
LevelInputs ==
    { DEBUG, INFO, WARNING, ERROR,
      <<"i","n","f","o">>, <<"W","a","r","n","i","n","g">>,
      <<"e","R","R","o","r">>,
      <<"T","R","A","C","E">>, <<>> }

\* the categories given to LogManager(category=...)
Categories == {"default", "TEST"}

\* console_handler_id = None
NoneId == -1

-----------------------------------------------------------------------------
(* loguru, as log_mode.py uses it *)

\* the severity numbers loguru gives the level names the sinks are added with
LevelNo(level) ==
    CASE level = DEBUG   -> 10
      [] level = INFO    -> 20
      [] level = WARNING -> 30
      [] level = ERROR   -> 40

\* a sink takes a record when the record reaches the sink's level and passes
\* the sink's filter: record["extra"].get("category") == self.category
Accepts(h, category, level) ==
    /\ LevelNo(level) >= LevelNo(h.level)
    /\ (h.filtered => h.category = category)

\* the sink loguru registers by itself when it is imported (stderr, id 0)
DefaultHandler ==
    [id |-> 0, sink |-> "stderr", key |-> "", level |-> DEBUG,
     category |-> "", filtered |-> FALSE]

\* the state of the logger as the operations below transform it
Lg == [handlers |-> handlers, nextId |-> nextId, mgr |-> mgr,
       out |-> <<>>, raised |-> "none"]

\* log.add(sink, level=..., filter=...): registers the sink under the next id
log_add(L, sink, key, level, category) ==
    [L EXCEPT !.handlers = @ \cup {[id |-> L.nextId, sink |-> sink, key |-> key,
                                    level |-> level, category |-> category,
                                    filtered |-> TRUE]},
              !.nextId = @ + 1]

\* log.remove(): every sink is removed
log_remove_all(L) == [L EXCEPT !.handlers = {}]

Registered(hs, id) == \E h \in hs : h.id = id

\* log.remove(id): ValueError when no sink has this id
log_remove(L, id) ==
    IF Registered(L.handlers, id)
    THEN [L EXCEPT !.handlers = {h \in @ : h.id # id}]
    ELSE [L EXCEPT !.raised = "ValueError: no existing handler"]

\* log.bind(category=category).<level>(msg): the record goes to every
\* registered sink that accepts it
emit(L, category, level) ==
    [L EXCEPT !.out = Append(@, [level |-> level, category |-> category,
                                 sinks |-> {h \in L.handlers :
                                              Accepts(h, category, level)}])]

-----------------------------------------------------------------------------
(* class LogManager *)

\* a file sink whose level is DEBUG whatever its file is
config_file_handler_all_debug(L, m, key, level) ==
    LET self == L.mgr[m]
    IN  [log_add(L, "file", key, DEBUG, self.category)
            EXCEPT !.mgr[m].file_handlers = (key :> L.nextId) @@ @]

\* one block of _config_file_handlers: the sink of the file
\* <category>_<key>_<date>.log, taking records of `level` and above
config_file_handler(L, m, key, level) ==
    LET self == L.mgr[m]
        L1 == IF key \in DOMAIN self.file_handlers
              THEN log_remove(L, self.file_handlers[key])
              ELSE L
    IN  IF L1.raised # "none" THEN L1
        ELSE [log_add(L1, "file", key, level, self.category)
                EXCEPT !.mgr[m].file_handlers = (key :> L1.nextId) @@ @]

\* LogManager._config_file_handlers
config_file_handlers(L, m) ==
    LET L1 == config_file_handler(L, m, "error", ERROR)
        L2 == IF L1.raised # "none" THEN L1
              ELSE config_file_handler(L1, m, "warning", WARNING)
        L3 == IF L2.raised # "none" THEN L2
              ELSE config_file_handler(L2, m, "info", INFO)
    IN  IF L3.raised # "none" THEN L3
        ELSE config_file_handler(L3, m, "debug", DEBUG)

\* the console sink added without the old one being removed
config_console_handler_keep_old(L, m) ==
    LET self == L.mgr[m]
    IN  [log_add(L, "console", "", self.run_mode, self.category)
            EXCEPT !.mgr[m].console_handler_id = L.nextId]

\* LogManager._config_console_handler
config_console_handler(L, m) ==
    LET self == L.mgr[m]
        L1 == IF self.console_handler_id # NoneId
              THEN log_remove(L, self.console_handler_id)
              ELSE L
    IN  IF L1.raised # "none" THEN L1
        ELSE [log_add(L1, "console", "", self.run_mode, self.category)
                EXCEPT !.mgr[m].console_handler_id = L1.nextId]

\* the constructor without the log.remove() that clears the registry
LogManager_init_no_clear(L, m, run_mode, category) ==
    LET rm == upper(run_mode)
    IN  IF ~InList(rm, VALID_LEVELS)
        THEN [L EXCEPT !.raised = "ValueError: invalid level"]
        ELSE LET self == [run_mode |-> rm, category |-> category,
                          file_handlers |-> <<>>,
                          console_handler_id |-> NoneId]
                 L1 == [L EXCEPT !.mgr = (m :> self) @@ @]
                 L3 == config_file_handlers(L1, m)
             IN  IF L3.raised # "none" THEN L3
                 ELSE config_console_handler(L3, m)

\* LogManager.__init__(log_path, run_mode, category), the new object being m
LogManager_init(L, m, run_mode, category) ==
    LET rm == upper(run_mode)
    IN  IF ~InList(rm, VALID_LEVELS)
        THEN [L EXCEPT !.raised = "ValueError: invalid level"]
        ELSE LET self == [run_mode |-> rm, category |-> category,
                          file_handlers |-> <<>>,
                          console_handler_id |-> NoneId]
                 L1 == [L EXCEPT !.mgr = (m :> self) @@ @]
                 L2 == log_remove_all(L1)
                 L3 == config_file_handlers(L2, m)
             IN  IF L3.raised # "none" THEN L3
                 ELSE config_console_handler(L3, m)

\* set_log_level reconfiguring the file sinks together with the console sink
set_log_level_reconfigures_files(L, m, level) ==
    LET lv == upper(level)
        self == L.mgr[m]
    IN  IF ~InList(lv, VALID_LEVELS)
        THEN [L EXCEPT !.raised = "ValueError: invalid level"]
        ELSE LET L1 == [L EXCEPT !.mgr[m].run_mode = lv]
                 L2 == config_file_handlers(L1, m)
                 L3 == IF L2.raised # "none" THEN L2
                       ELSE config_console_handler(L2, m)
             IN  IF L3.raised # "none" THEN L3
                 ELSE emit(L3, self.category, INFO)

\* set_log_level storing the level without reconfiguring the console sink
set_log_level_no_reconfigure(L, m, level) ==
    LET lv == upper(level)
        self == L.mgr[m]
    IN  IF ~InList(lv, VALID_LEVELS)
        THEN [L EXCEPT !.raised = "ValueError: invalid level"]
        ELSE IF self.run_mode = lv
        THEN emit(L, self.category, INFO)
        ELSE emit([L EXCEPT !.mgr[m].run_mode = lv], self.category, INFO)

\* LogManager.set_log_level(level)
set_log_level(L, m, level) ==
    LET lv == upper(level)
        self == L.mgr[m]
    IN  IF ~InList(lv, VALID_LEVELS)
        THEN [L EXCEPT !.raised = "ValueError: invalid level"]
        ELSE IF self.run_mode = lv
        THEN emit(L, self.category, INFO)
        ELSE LET L1 == [L EXCEPT !.mgr[m].run_mode = lv]
                 L2 == config_console_handler(L1, m)
             IN  IF L2.raised # "none" THEN L2
                 ELSE emit(L2, self.category, INFO)

\* LogManager.debug / info / warning / error
debug(L, m)   == emit(L, L.mgr[m].category, DEBUG)
info(L, m)    == emit(L, L.mgr[m].category, INFO)
warning(L, m) == emit(L, L.mgr[m].category, WARNING)
error(L, m)   == emit(L, L.mgr[m].category, ERROR)

\* LogManager.get_current_level
get_current_level(m) == mgr[m].run_mode

-----------------------------------------------------------------------------
(* The operations of the logging manager as steps of a program using it *)

\* the state an operation leaves, and how it ended
Finish(L, name, m, arg) ==
    /\ handlers' = L.handlers
    /\ nextId' = L.nextId
    /\ mgr' = L.mgr
    /\ out' = L.out
    /\ result' = (IF L.raised = "none" THEN "ok" ELSE L.raised)
    /\ op' = [name |-> name, self |-> m, arg |-> arg]

\* the object a construction creates: objects are numbered as constructed
NewManager == Cardinality(DOMAIN mgr) + 1

\* LogManager(run_mode=run_mode, category=category)
Construct(run_mode, category) ==
    /\ NewManager \in Managers
    /\ nextId + 4 <= MaxHandlerId
    /\ Finish(LogManager_init(Lg, NewManager, run_mode, category),
              "LogManager", NewManager, run_mode)
    /\ UNCHANGED drvvars

SetLogLevel(m, level) ==
    /\ m \in DOMAIN mgr
    /\ nextId <= MaxHandlerId
    /\ Finish(set_log_level(Lg, m, level), "set_log_level", m, level)
    /\ UNCHANGED drvvars

LogDebug(m) ==
    /\ m \in DOMAIN mgr
    /\ Finish(debug(Lg, m), "debug", m, DEBUG)
    /\ UNCHANGED drvvars

LogInfo(m) ==
    /\ m \in DOMAIN mgr
    /\ Finish(info(Lg, m), "info", m, INFO)
    /\ UNCHANGED drvvars

LogWarning(m) ==
    /\ m \in DOMAIN mgr
    /\ Finish(warning(Lg, m), "warning", m, WARNING)
    /\ UNCHANGED drvvars

LogError(m) ==
    /\ m \in DOMAIN mgr
    /\ Finish(error(Lg, m), "error", m, ERROR)
    /\ UNCHANGED drvvars

-----------------------------------------------------------------------------
(* Initial state: loguru imported, nothing constructed, the driver not started *)

NoArgs == [config |-> "", log_level |-> <<>>, mode |-> ""]

Init ==
    /\ handlers = {DefaultHandler}
    /\ nextId = 1
    /\ mgr = <<>>
    /\ out = <<>>
    /\ result = "ok"
    /\ op = [name |-> "import", self |-> 0, arg |-> <<>>]
    /\ pc = "start"
    /\ args = NoArgs
    /\ env = [config_exists |-> TRUE, input_exists |-> TRUE,
              yaml |-> [input_data_path |-> "input.mp4",
                        output_data_path |-> "./output",
                        model_path |-> "sam2_b.pt",
                        bboxes |-> "None", points |-> "None",
                        labels |-> "None"]]
    /\ model = "unassigned"
    /\ model_calls = <<>>
    /\ results = <<>>
    /\ saved = <<>>
    /\ steps = <<>>

Next ==
    \/ \E run_mode \in LevelInputs, category \in Categories :
          Construct(run_mode, category)
    \/ \E m \in Managers, level \in LevelInputs : SetLogLevel(m, level)
    \/ \E m \in Managers : LogDebug(m)
    \/ \E m \in Managers : LogInfo(m)
    \/ \E m \in Managers : LogWarning(m)
    \/ \E m \in Managers : LogError(m)

Spec == Init /\ [][Next]_vars

-----------------------------------------------------------------------------
(* predict.py: class SAMPredictor *)

\* SAMPredictor.__init__(model_path, log_manager, mode): the logger after
\* the constructor's messages, and the attribute self.model
SAMPredictor_init(L, m, mode, old_model) ==
    LET L1 == debug(L, m)
        R  == IF InList(mode, <<"image", "video2img">>)
              THEN [lg |-> debug(L1, m), model |-> "SAM"]
              ELSE IF mode = "video"
              THEN [lg |-> debug(L1, m), model |-> "SAM2VideoPredictor"]
              ELSE IF mode = "DynVideo"
              THEN [lg |-> info(debug(L1, m), m),
                    model |-> "SAM2DynamicInteractivePredictor"]
              ELSE [lg |-> L1, model |-> old_model]
    IN  [lg |-> debug(R.lg, m), model |-> R.model]

\* the keyword arguments SAMPredictor.__call__ gives self.model
forwarded_prompts(bboxes, points, labels) ==
    [points |-> points, labels |-> labels]

\* SAMPredictor.__call__(input_data, bboxes, points, labels): the messages
\* logged before the model is invoked
SAMPredictor_call_log(L, m) ==
    debug(debug(debug(debug(debug(L, m), m), m), m), m)

\* the value a keyword parameter of the underlying model takes in a call:
\* None when the call does not pass it
Arg(call, name) ==
    IF name \in DOMAIN call.kwargs THEN call.kwargs[name] ELSE "None"

-----------------------------------------------------------------------------
(* predict.py: __main__ *)

\* the configuration read by yaml.safe_load
config == env.yaml

\* the keys of the configuration the driver reads
ConfigKeys == DOMAIN config

\* parse_args(): the choices of --log_level and of --mode
LogLevelChoices == <<DEBUG, INFO, WARNING, ERROR>>
ModeChoices == <<"img", "video2img", "video", "DynVideo">>

RECURSIVE info_times(_, _, _)
\* n calls of log_manager.info
info_times(L, m, n) == IF n = 0 THEN L ELSE info_times(info(L, m), m, n - 1)

\* the driver's own LogManager object
Main == 1

MainParseArgs ==
    /\ pc = "start"
    /\ \E l \in DOMAIN LogLevelChoices, k \in DOMAIN ModeChoices :
          args' = [config |-> "./config/sam_2.yaml",
                   log_level |-> LogLevelChoices[l], mode |-> ModeChoices[k]]
    /\ pc' = "parsed"
    /\ steps' = Append(steps, "parse_args")
    /\ op' = [name |-> "main:parse_args", self |-> 0, arg |-> <<>>]
    /\ out' = <<>> /\ result' = "ok"
    /\ UNCHANGED <<handlers, nextId, mgr, env, model, model_calls, results, saved>>

\* the configuration loaded without the check that the input path exists
MainLoadConfig_no_input_check ==
    /\ pc = "parsed"
    /\ op' = [name |-> "main:load_config", self |-> 0, arg |-> <<>>]
    /\ out' = <<>>
    /\ IF ~env.config_exists
       THEN /\ result' = "AssertionError" /\ pc' = "aborted"
            /\ steps' = steps
       ELSE /\ result' = "ok" /\ pc' = "config_loaded"
            /\ steps' = Append(steps, "load_config")
    /\ UNCHANGED <<handlers, nextId, mgr, args, env, model, model_calls, results, saved>>

\* lines 160-168: the config file exists, is loaded, the input path exists,
\* the output directory is made
MainLoadConfig ==
    /\ pc = "parsed"
    /\ op' = [name |-> "main:load_config", self |-> 0, arg |-> <<>>]
    /\ out' = <<>>
    /\ IF ~env.config_exists \/ ~env.input_exists
       THEN /\ result' = "AssertionError" /\ pc' = "aborted"
            /\ steps' = steps
       ELSE /\ result' = "ok" /\ pc' = "config_loaded"
            /\ steps' = Append(steps, "load_config")
    /\ UNCHANGED <<handlers, nextId, mgr, args, env, model, model_calls, results, saved>>

\* lines 170-171: LogManager() with its defaults, then set_log_level
MainInitLogging ==
    /\ pc = "config_loaded"
    /\ LET L1 == LogManager_init(Lg, Main, INFO, "default")
           L2 == IF L1.raised # "none" THEN L1
                 ELSE set_log_level(L1, Main, args.log_level)
       IN  /\ Finish(L2, "main:LogManager", Main, args.log_level)
           /\ IF L2.raised = "none"
              THEN pc' = "logging_ready" /\ steps' = Append(steps, "LogManager")
              ELSE pc' = "aborted" /\ steps' = steps
    /\ UNCHANGED <<args, env, model, model_calls, results, saved>>

\* line 174
MainConstructPredictor ==
    /\ pc = "logging_ready"
    /\ LET R == SAMPredictor_init(Lg, Main, args.mode, model)
       IN  /\ Finish(R.lg, "main:SAMPredictor", Main, <<>>)
           /\ model' = R.model
    /\ pc' = "model_ready"
    /\ steps' = Append(steps, "SAMPredictor")
    /\ UNCHANGED <<args, env, model_calls, results, saved>>

\* lines 177-193: the system information is printed; the arguments and the
\* configuration are logged, one INFO message a line
MainLogParameters ==
    /\ pc = "model_ready"
    /\ Finish(info_times(Lg, Main,
                         3 + Cardinality(DOMAIN args) + 3
                           + Cardinality(ConfigKeys) + 1 + 1),
              "main:log_parameters", Main, <<>>)
    /\ pc' = "parameters_logged"
    /\ UNCHANGED <<args, env, model, model_calls, results, saved, steps>>

\* lines 194-195: the inference call; the underlying model returns a list
MainInfer ==
    /\ pc = "parameters_logged"
    /\ LET L1 == SAMPredictor_call_log(Lg, Main)
       IN  IF model = "unassigned"
           THEN /\ Finish([L1 EXCEPT !.raised = "AttributeError"],
                          "main:inference", Main, <<>>)
                /\ pc' = "aborted"
                /\ UNCHANGED <<model_calls, results, steps>>
           ELSE /\ model_calls' = Append(model_calls,
                      [model |-> model,
                       input_data |-> config.input_data_path,
                       kwargs |-> forwarded_prompts(config.bboxes,
                                                    config.points,
                                                    config.labels)])
                /\ \E n \in 0 .. MaxResults : results' = [i \in 1 .. n |-> i]
                /\ Finish(info(L1, Main), "main:inference", Main, <<>>)
                /\ pc' = "inferred"
                /\ steps' = Append(steps, "inference")
    /\ UNCHANGED <<args, env, model, saved>>

\* the first result saved whenever the list is not empty
MainSave_first_of_any ==
    /\ pc = "inferred"
    /\ IF Len(results) >= 1
       THEN /\ saved' = Append(saved, [result |-> results[1],
                                       path |-> config.output_data_path])
            /\ steps' = Append(steps, "save")
            /\ Finish(Lg, "main:save", Main, <<>>)
       ELSE /\ Finish(error(Lg, Main), "main:save", Main, <<>>)
            /\ UNCHANGED <<saved, steps>>
    /\ pc' = "done"
    /\ UNCHANGED <<args, env, model, model_calls, results>>

\* lines 197-202
MainSave ==
    /\ pc = "inferred"
    /\ IF Len(results) = 1
       THEN /\ saved' = Append(saved, [result |-> results[1],
                                       path |-> config.output_data_path])
            /\ steps' = Append(steps, "save")
            /\ Finish(Lg, "main:save", Main, <<>>)
       ELSE IF Len(results) > 1
       THEN /\ Finish(warning(Lg, Main), "main:save", Main, <<>>)
            /\ UNCHANGED <<saved, steps>>
       ELSE /\ Finish(error(Lg, Main), "main:save", Main, <<>>)
            /\ UNCHANGED <<saved, steps>>
    /\ pc' = "done"
    /\ UNCHANGED <<args, env, model, model_calls, results>>

\* what the configuration file may hold for the prompts
BBoxValues == {"None", "[[10, 20, 300, 400]]"}
PointValues == {"None", "[[150, 200]]"}
LabelValues == {"None", "[1]"}

\* a run of the driver: the files it finds and the configuration it reads
InitDriver ==
    /\ handlers = {DefaultHandler}
    /\ nextId = 1
    /\ mgr = <<>>
    /\ out = <<>>
    /\ result = "ok"
    /\ op = [name |-> "import", self |-> 0, arg |-> <<>>]
    /\ pc = "start"
    /\ args = NoArgs
    /\ env \in [config_exists : BOOLEAN, input_exists : BOOLEAN,
                 yaml : [input_data_path : {"input.mp4"},
                         output_data_path : {"./output"},
                         model_path : {"sam2_b.pt"},
                         bboxes : BBoxValues, points : PointValues,
                         labels : LabelValues]]
    /\ model = "unassigned"
    /\ model_calls = <<>>
    /\ results = <<>>
    /\ saved = <<>>
    /\ steps = <<>>

NextDriver ==
    \/ MainParseArgs
    \/ MainLoadConfig
    \/ MainInitLogging
    \/ MainConstructPredictor
    \/ MainLogParameters
    \/ MainInfer
    \/ MainSave

SpecDriver == InitDriver /\ [][NextDriver]_vars

-----------------------------------------------------------------------------
(* Vocabulary of the properties of the logging manager *)

Levels == {DEBUG, INFO, WARNING, ERROR}
FileKeys == {"error", "warning", "info", "debug"}
LogMethods == {"debug", "info", "warning", "error"}

\* the file a level is saved to
FileKeyOf(level) ==
    CASE level = DEBUG   -> "debug"
      [] level = INFO    -> "info"
      [] level = WARNING -> "warning"
      [] level = ERROR   -> "error"

\* the level each accepted spelling stands for; every other input is invalid
Spelling ==
    (DEBUG :> DEBUG) @@ (INFO :> INFO) @@ (WARNING :> WARNING) @@
    (ERROR :> ERROR) @@ (<<"i","n","f","o">> :> INFO) @@
    (<<"W","a","r","n","i","n","g">> :> WARNING) @@
    (<<"e","R","R","o","r">> :> ERROR)

Printed(rec) == \E h \in rec.sinks : h.sink = "console"
TimesPrinted(rec) == Cardinality({h \in rec.sinks : h.sink = "console"})
FilesWritten(rec) == {<<h.category, h.key>> : h \in {g \in rec.sinks : g.sink = "file"}}

ConsoleSinks == {h \in handlers : h.sink = "console"}
FileSinks == {h \in handlers : h.sink = "file"}

\* the ids the object m stores
StoredIds(m) ==
    {mgr[m].console_handler_id} \cup
    {mgr[m].file_handlers[k] : k \in DOMAIN mgr[m].file_handlers}

\* m's file sinks are registered with the logger
FilesRegistered(m) ==
    \A k \in FileKeys : /\ k \in DOMAIN mgr[m].file_handlers
                        /\ Registered(handlers, mgr[m].file_handlers[k])

\* exactly one LogManager has been constructed, and it is m
Single(m) == DOMAIN mgr = {m}

\* the object constructed last
Latest == Cardinality(DOMAIN mgr)

-----------------------------------------------------------------------------
(* C1: for a single LogManager, whatever levels were set before, a message  *)
(* logged through debug/info/warning/error is printed to the console        *)
(* exactly when its priority is at least the priority of the level that     *)
(* get_current_level returns.                                               *)
C1_ConsolePrintsIffAtLeastCurrentLevel ==
    (op.name \in LogMethods /\ Single(op.self)) =>
        /\ Len(out) = 1
        /\ out[1].level = op.arg
        /\ Printed(out[1]) <=>
              LEVEL_PRIORITY[out[1].level]
                >= LEVEL_PRIORITY[get_current_level(op.self)]

\* after two level changes the level is WARNING and an INFO message is
\* logged and not printed
C1_Witness ==
    /\ op.name = "info" /\ Single(op.self)
    /\ nextId >= 8
    /\ get_current_level(op.self) = WARNING
    /\ ~Printed(out[1])

(* C2: whatever the console level, a message of severity S logged through a *)
(* LogManager whose file sinks are registered is written to the files of    *)
(* its category for exactly the levels X with priority(X) <= priority(S),   *)
(* its own severity among them, printed or not.                             *)
C2_FilesIndependentOfConsoleLevel ==
    (op.name \in LogMethods /\ FilesRegistered(op.self)) =>
        /\ Len(out) = 1
        /\ out[1].level = op.arg
        /\ FilesWritten(out[1]) =
              {<<mgr[op.self].category, FileKeyOf(X)>> :
                 X \in {Y \in Levels :
                          LEVEL_PRIORITY[Y] <= LEVEL_PRIORITY[out[1].level]}}
        /\ <<mgr[op.self].category, FileKeyOf(out[1].level)>>
              \in FilesWritten(out[1])
        /\ Cardinality({h \in out[1].sinks : h.sink = "file"})
              = Cardinality(FilesWritten(out[1]))

\* the console level is ERROR; a WARNING message is not printed and is
\* written to the warning, info and debug files
C2_Witness ==
    /\ op.name = "warning" /\ FilesRegistered(op.self)
    /\ get_current_level(op.self) = ERROR
    /\ ~Printed(out[1])
    /\ FilesWritten(out[1]) =
          {<<mgr[op.self].category, k>> : k \in {"warning", "info", "debug"}}

(* C7: set_log_level with a level that is not a spelling of DEBUG, INFO,    *)
(* WARNING, ERROR raises ValueError and changes nothing and emits nothing;  *)
(* LogManager with such a run_mode raises ValueError with every sink and    *)
(* object as before; a valid level in lower or mixed case passes the check  *)
(* and is stored upper-cased (and the call returns normally when the        *)
(* object's console sink is registered).                                    *)
C7_InvalidLevelChangesNothing ==
    [][ /\ (op'.name = "set_log_level" /\ op'.arg \notin DOMAIN Spelling) =>
            /\ result' = "ValueError: invalid level"
            /\ mgr' = mgr /\ handlers' = handlers /\ nextId' = nextId
            /\ out' = <<>>
        /\ (op'.name = "LogManager" /\ op'.arg \notin DOMAIN Spelling) =>
            /\ result' = "ValueError: invalid level"
            /\ mgr' = mgr /\ handlers' = handlers /\ nextId' = nextId
            /\ out' = <<>>
        /\ (op'.name = "set_log_level" /\ op'.arg \in DOMAIN Spelling) =>
            /\ result' # "ValueError: invalid level"
            /\ mgr'[op'.self].run_mode = Spelling[op'.arg]
            /\ Registered(handlers, mgr[op'.self].console_handler_id)
                  => result' = "ok"
        /\ (op'.name = "LogManager" /\ op'.arg \in DOMAIN Spelling) =>
            /\ result' = "ok"
            /\ mgr'[op'.self].run_mode = Spelling[op'.arg]
      ]_vars

\* an invalid level was refused with the sinks of a LogManager registered
C7_Witness ==
    /\ op.name = "set_log_level"
    /\ op.arg = <<"T","R","A","C","E">>
    /\ result = "ValueError: invalid level"
    /\ out = <<>>
    /\ Cardinality(handlers) = 5

(* C8: set_log_level leaves the file sinks alone: after any call the file   *)
(* handler ids of the object and the registered file sinks are those before *)
(* the call; when the level asked for is the current one, the console       *)
(* handler id and the whole registry are unchanged as well and exactly one  *)
(* INFO message is emitted.                                                 *)
C8_SetLevelLeavesFileSinks ==
    [][ op'.name = "set_log_level" =>
          /\ \A m \in DOMAIN mgr : mgr'[m].file_handlers = mgr[m].file_handlers
          /\ {h \in handlers' : h.sink = "file"} = FileSinks
          /\ ( /\ op'.arg \in DOMAIN Spelling
               /\ Spelling[op'.arg] = mgr[op'.self].run_mode ) =>
                /\ mgr' = mgr /\ handlers' = handlers /\ nextId' = nextId
                /\ result' = "ok"
                /\ Len(out') = 1 /\ out'[1].level = INFO
                /\ out'[1].category = mgr[op'.self].category
      ]_vars

\* the level asked for (in lower case) was the current one: no sink was
\* added since the construction and one INFO message was emitted
C8_Witness ==
    /\ op.name = "set_log_level" /\ op.arg = <<"i","n","f","o">>
    /\ Single(op.self) /\ nextId = 6
    /\ mgr[op.self].run_mode = INFO
    /\ Len(out) = 1

(* C9: for a single LogManager, between calls exactly one console sink and  *)
(* exactly the four file sinks error, warning, info, debug are registered,  *)
(* console_handler_id is the id of the console sink, whose level is         *)
(* run_mode; no message is printed more than once.                          *)
C9_OneConsoleFourFileSinks ==
    \A m \in DOMAIN mgr : Single(m) =>
        /\ Cardinality(ConsoleSinks) = 1
        /\ Cardinality(FileSinks) = 4
        /\ {h.key : h \in FileSinks} = FileKeys
        /\ handlers = ConsoleSinks \cup FileSinks
        /\ \A h \in ConsoleSinks : /\ h.id = mgr[m].console_handler_id
                                    /\ h.level = mgr[m].run_mode
        /\ \A h \in FileSinks : h.id = mgr[m].file_handlers[h.key]
        /\ \A i \in DOMAIN out : TimesPrinted(out[i]) <= 1

\* the level was changed three times; the last change printed its message
C9_Witness ==
    /\ Single(1) /\ nextId = 9
    /\ op.name = "set_log_level" /\ result = "ok"
    /\ TimesPrinted(out[1]) = 1

(* C10: sinks are process-wide and filtered by category.  Constructing a    *)
(* LogManager removes every sink registered before, so the registered sinks *)
(* are those of the object constructed last; the ids an earlier object      *)
(* stores are not registered; a message logged through an earlier object    *)
(* goes to the sinks of the last one (those whose level it reaches) when    *)
(* the categories are equal and to no sink when they differ.                *)
C10_LaterManagerTakesOverSinks ==
    /\ \A m \in DOMAIN mgr :
          /\ m # Latest => \A id \in StoredIds(m) : ~Registered(handlers, id)
          /\ m = Latest => /\ \A h \in handlers : h.id \in StoredIds(m)
                           /\ \A h \in handlers : h.filtered /\ h.category = mgr[m].category
    /\ \A i \in DOMAIN out : \A h \in out[i].sinks :
          h.filtered => h.category = out[i].category
    /\ (op.name \in LogMethods /\ op.self # Latest) =>
          /\ Len(out) = 1
          /\ out[1].sinks =
                IF mgr[op.self].category = mgr[Latest].category
                THEN {h \in handlers : h.id \in StoredIds(Latest)
                                         /\ LevelNo(op.arg) >= LevelNo(h.level)}
                ELSE {}
          /\ mgr[op.self].category = mgr[Latest].category => out[1].sinks # {}

\* an ERROR message logged through the first object after a second one of
\* another category was constructed reaches no sink
C10_Witness ==
    /\ DOMAIN mgr = {1, 2}
    /\ mgr[1].category # mgr[2].category
    /\ op.name = "error" /\ op.self = 1
    /\ out[1].sinks = {}

\* the same, the categories being equal: the message reaches the second
\* object's sinks
C10_WitnessSameCategory ==
    /\ DOMAIN mgr = {1, 2}
    /\ mgr[1].category = mgr[2].category
    /\ op.name = "error" /\ op.self = 1
    /\ Cardinality(out[1].sinks) = 5

-----------------------------------------------------------------------------
(* Properties of the driver *)

\* the steps of a run, in the order of the control flow
StepOrder == <<"parse_args", "load_config", "LogManager", "SAMPredictor",
               "inference", "save">>

\* the driver is past the construction of the SAMPredictor
PredictorConstructed ==
    pc \in {"model_ready", "parameters_logged", "inferred", "done"}
      \/ (pc = "aborted" /\ op.name = "main:inference")

(* C3: for every mode the command line accepts (img, video2img, video,      *)
(* DynVideo), constructing SAMPredictor assigns a model wrapper to the      *)
(* predictor's model, so that the inference call has a model to invoke.     *)
C3_EveryModeAssignsModel ==
    PredictorConstructed =>
        /\ model \in {"SAM", "SAM2VideoPredictor",
                      "SAM2DynamicInteractivePredictor"}
        /\ result # "AttributeError"

(* C4: the inference call forwards every prompt unchanged: the model is     *)
(* called with the input data and with the bounding boxes, the points and   *)
(* the labels of the configuration.                                         *)
C4_AllPromptsForwarded ==
    \A i \in DOMAIN model_calls :
        /\ model_calls[i].input_data = config.input_data_path
        /\ Arg(model_calls[i], "bboxes") = config.bboxes
        /\ Arg(model_calls[i], "points") = config.points
        /\ Arg(model_calls[i], "labels") = config.labels

(* C5 as stated: whenever the inference call returned a non-empty list the  *)
(* results are saved before the run ends; only an empty list leads to no    *)
(* save.                                                                    *)
C5_NonEmptyResultsSaved ==
    pc = "done" => (Len(results) >= 1 <=> saved # <<>>)

(* C5 as amended: a run that ends after the inference call returned saves   *)
(* the result to the configured output path exactly when the list holds one *)
(* result; a longer list is not saved and a WARNING is logged; an empty     *)
(* list is not saved and an ERROR is logged.                                *)
C5_SingleResultSaved ==
    pc = "done" =>
        /\ Len(results) = 1 =>
              /\ saved = <<[result |-> results[1],
                            path |-> config.output_data_path]>>
              /\ out = <<>>
        /\ Len(results) > 1 =>
              /\ saved = <<>>
              /\ Len(out) = 1 /\ out[1].level = WARNING
        /\ Len(results) = 0 =>
              /\ saved = <<>>
              /\ Len(out) = 1 /\ out[1].level = ERROR

\* the run ended with two results and nothing saved
C5_Witness ==
    /\ pc = "done" /\ Len(results) = 2 /\ saved = <<>>
    /\ out[1].level = WARNING

(* C6: the steps of a run occur in the order parse_args, configuration load *)
(* (with the checks that the config file and the input path exist),         *)
(* LogManager, SAMPredictor, inference call, save; a step starts only after *)
(* the one before it ended without error; no LogManager and no model exists *)
(* when the config file or the input path is missing; the model is invoked  *)
(* at most once.                                                            *)
C6_StepsInOrder ==
    /\ Len(steps) <= Len(StepOrder)
    /\ \A i \in DOMAIN steps : steps[i] = StepOrder[i]
    /\ (result # "ok") => pc = "aborted"
    /\ (pc = "aborted") => (result # "ok")
    /\ InList("load_config", steps) <=>
          pc \notin {"start", "parsed"}
            /\ ~(pc = "aborted" /\ op.name = "main:load_config")
    /\ InList("load_config", steps) => env.config_exists /\ env.input_exists
    /\ InList("LogManager", steps) <=> Main \in DOMAIN mgr
    /\ ~InList("load_config", steps) =>
          mgr = <<>> /\ handlers = {DefaultHandler} /\ model = "unassigned"
    /\ ~InList("LogManager", steps) => model = "unassigned"
    /\ model # "unassigned" => InList("SAMPredictor", steps)
    /\ InList("inference", steps) <=> Len(model_calls) = 1
    /\ ~InList("SAMPredictor", steps) => model_calls = <<>>
    /\ ~InList("inference", steps) => results = <<>> /\ saved = <<>>
    /\ InList("save", steps) <=> saved # <<>>
    /\ Len(model_calls) <= 1

\* the input path is missing: the run aborted after parse_args with nothing
\* constructed
C6_WitnessAbort ==
    /\ pc = "aborted" /\ ~env.input_exists /\ env.config_exists
    /\ steps = <<"parse_args">>
    /\ mgr = <<>>

\* a run that went through every step
C6_Witness ==
    /\ pc = "done" /\ steps = StepOrder
    /\ Len(model_calls) = 1 /\ Len(saved) = 1

=============================================================================
